---------------------------- MODULE Spec2Model ----------------------------
(***************************************************************************)
(* A model of tv-rename: the three command line programs                   *)
(*   tv_rename.__main__  (season / episode renumbering),                   *)
(*   tv_rename.unmangle  (alt order -> aired order),                       *)
(*   tv_rename.multipart (combined multipart episodes),                    *)
(* and the helpers of tv_rename.util they share.                           *)
(*                                                                         *)
(* Strings are sequences of one-character strings, so that lower(),        *)
(* suffix extraction, number formatting and the two sort orders are        *)
(* computed character by character, as Python computes them.  A path is    *)
(* the pair <<directory name, file name>> below the series directory.      *)
(* The filesystem follows POSIX rename(2), which is what pathlib's         *)
(* Path.rename calls on the platforms the programs run on (util.py reads   *)
(* and writes /tmp).                                                       *)
(***************************************************************************)
EXTENDS Naturals, Sequences, FiniteSets, TLC

(***************************************************************************)
(* Characters and strings                                                  *)
(***************************************************************************)

\* The characters the model uses, in code point order.
Ascii ==
  << " ", "-", ".", "/",
     "0", "1", "2", "3", "4", "5", "6", "7", "8", "9",
     "A", "B", "C", "D", "E", "F", "G", "H", "I", "J", "K", "L", "M",
     "N", "O", "P", "Q", "R", "S", "T", "U", "V", "W", "X", "Y", "Z",
     "a", "b", "c", "d", "e", "f", "g", "h", "i", "j", "k", "l", "m",
     "n", "o", "p", "q", "r", "s", "t", "u", "v", "w", "x", "y", "z" >>

Digits == <<"0", "1", "2", "3", "4", "5", "6", "7", "8", "9">>

\* ord(c), up to the gaps between the characters of the model.
Ord(c) == CHOOSE k \in DOMAIN Ascii : Ascii[k] = c

IsDigitChar(c) == \E k \in DOMAIN Digits : Digits[k] = c

Upper ==
  << "A", "B", "C", "D", "E", "F", "G", "H", "I", "J", "K", "L", "M",
     "N", "O", "P", "Q", "R", "S", "T", "U", "V", "W", "X", "Y", "Z" >>

Lower ==
  << "a", "b", "c", "d", "e", "f", "g", "h", "i", "j", "k", "l", "m",
     "n", "o", "p", "q", "r", "s", "t", "u", "v", "w", "x", "y", "z" >>

IsUpperChar(c) == \E k \in DOMAIN Upper : Upper[k] = c

\* str.lower(): upper case letters map to lower case, all else is kept.
LowerChar(c) ==
  IF IsUpperChar(c) THEN Lower[CHOOSE k \in DOMAIN Upper : Upper[k] = c] ELSE c

lower(s) == [k \in DOMAIN s |-> LowerChar(s[k])]

\* str.isdigit(): non-empty and every character a digit.
isdigit(s) == Len(s) > 0 /\ \A k \in DOMAIN s : IsDigitChar(s[k])

\* int(s) of a string of digits.
DigitVal(c) == (CHOOSE k \in DOMAIN Digits : Digits[k] = c) - 1

RECURSIVE int(_)
int(s) == IF Len(s) = 0 THEN 0
          ELSE 10 * int(SubSeq(s, 1, Len(s) - 1)) + DigitVal(s[Len(s)])

\* str < str: by code point at the first difference, a proper prefix first.
StrLess(a, b) ==
  \E k \in 1..Len(b) :
     /\ k <= Len(a) + 1
     /\ \A j \in 1..(k - 1) : a[j] = b[j]
     /\ (k = Len(a) + 1 \/ Ord(a[k]) < Ord(b[k]))

\* str(n) for a natural number.
RECURSIVE str(_)
str(n) == IF n < 10 THEN <<Digits[n + 1]>>
          ELSE str(n \div 10) \o <<Digits[(n % 10) + 1]>>

\* The format spec {n:02}: at least two digits, padded with zeros.
Fmt02(n) == IF n < 10 THEN <<"0">> \o str(n) ELSE str(n)

\* Index of the first character of s at or after k that is (is not) a
\* digit; Len(s) + 1 when there is none.
FirstAt(s, k, digit) ==
  LET hits == {j \in k..Len(s) : IsDigitChar(s[j]) = digit}
  IN  IF hits = {} THEN Len(s) + 1
      ELSE CHOOSE j \in hits : \A h \in hits : j <= h

\* re.split(r'(\d+)', s): text, digits, text, ..., text; the text tokens at
\* either end may be empty.
RECURSIVE SplitFrom(_, _)
SplitFrom(s, k) ==
  LET tEnd == FirstAt(s, k, TRUE)
      dEnd == FirstAt(s, tEnd, FALSE)
  IN  IF tEnd > Len(s) THEN <<SubSeq(s, k, Len(s))>>
      ELSE <<SubSeq(s, k, tEnd - 1), SubSeq(s, tEnd, dEnd - 1)>> \o SplitFrom(s, dEnd)

re_split_digits(s) == SplitFrom(s, 1)


(***************************************************************************)
(* Paths                                                                   *)
(***************************************************************************)

\* A path below the series directory: <<directory name, file name>>.
Dir(p) == p[1]

Name(p) == p[2]

\* str(path), relative to the series directory.
PathStr(p) == Dir(p) \o <<"/">> \o Name(p)

\* PurePath.suffix of a file name: from the last dot on, when that dot is
\* neither the first nor the last character; otherwise empty.
Suffix(name) ==
  LET dots == {k \in DOMAIN name : name[k] = "."}
      last == CHOOSE k \in dots : \A h \in dots : h <= k
  IN  IF dots = {} THEN <<>>
      ELSE IF last > 1 /\ last < Len(name) THEN SubSeq(name, last, Len(name))
      ELSE <<>>

\* util.natural_sort: the comparison key of a path.
natural_sort(p) ==
  LET toks == re_split_digits(PathStr(p))
  IN  [k \in DOMAIN toks |-> IF isdigit(toks[k]) THEN int(toks[k]) ELSE lower(toks[k])]

\* list < list on two natural_sort keys.  re.split alternates text and
\* digits starting with text, so position k holds text when k is odd and an
\* int when k is even, in both keys.
KeyElemLess(k, x, y) == IF k % 2 = 0 THEN x < y ELSE StrLess(x, y)

KeyLess(a, b) ==
  \E k \in 1..Len(b) :
     /\ k <= Len(a) + 1
     /\ \A j \in 1..(k - 1) : a[j] = b[j]
     /\ (k = Len(a) + 1 \/ KeyElemLess(k, a[k], b[k]))

\* Path < Path (PurePath.__lt__): the lists of parts are compared.
PathLess(p, q) ==
  \/ StrLess(Dir(p), Dir(q))
  \/ Dir(p) = Dir(q) /\ StrLess(Name(p), Name(q))

\* The sequences over the set S without repetition.
RECURSIVE Orderings(_)
Orderings(S) ==
  IF S = {} THEN {<<>>}
  ELSE UNION {{<<x>> \o q : q \in Orderings(S \ {x})} : x \in S}

\* sorted(S, key=None if lex else natural_sort): every listing of S that
\* ascends in the sort order, which compares the paths themselves when key
\* is None (lexicographic sort) and their natural_sort keys otherwise.
\* Paths with equal keys keep the order the directory listing produced them
\* in, which the filesystem chooses, so each such order is a possible result.
sorted(S, lex) ==
  LET keyed == {<<p, IF lex THEN <<>> ELSE natural_sort(p)>> : p \in S}
      less(x, y) == IF lex THEN PathLess(x[1], y[1]) ELSE KeyLess(x[2], y[2])
      ascending == {q \in Orderings(keyed) :
                      \A a \in 1..(Len(q) - 1) : ~less(q[a + 1], q[a])}
  IN  {[h \in DOMAIN q |-> q[h][1]] : q \in ascending}

(***************************************************************************)
(* util.py                                                                 *)
(***************************************************************************)

mkv == <<".", "m", "k", "v">>

mp4 == <<".", "m", "p", "4">>

avi == <<".", "a", "v", "i">>

VIDEO_EXTS == {mkv, mp4, avi}

\* exts = {ext} if ext else VIDEO_EXTS.  An option that was not passed is
\* the empty string here: None and "" are both false in the test.
ExtsOf(ext) == IF Len(ext) > 0 THEN {ext} ELSE VIDEO_EXTS

\* The test of the listing: p.suffix.lower() in exts.
SuffixMatches(name, ext) == lower(Suffix(name)) \in ExtsOf(ext)


\* util.episodes_of / unmangle._episodes_of: the Episode objects of a
\* catalog answer, records with a false seasonNumber (season 0) left out.
\* local_path is None, written <<>>.
None == <<>>

Episode(e) ==
  [id |-> e.id, episode_number |-> e.number,
   season_number |-> e.seasonNumber, local_path |-> None]

RECURSIVE episodes_of(_)
episodes_of(raw) ==
  IF raw = <<>> THEN <<>>
  ELSE (IF Head(raw).seasonNumber # 0 THEN <<Episode(Head(raw))>> ELSE <<>>)
       \o episodes_of(Tail(raw))

(***************************************************************************)
(* The filesystem below the series directory: the set of its               *)
(* subdirectories and, for every regular file in one of them, what the     *)
(* file holds (named after the path it had at the start).                  *)
(***************************************************************************)

IsFile(f, p) == p \in DOMAIN f.files

IsDir(f, d) == d \in f.dirs

FilesIn(f, d) == {p \in DOMAIN f.files : Dir(p) = d}

\* Path.mkdir(exist_ok=True) of a subdirectory.
Mkdir(f, d) == [f EXCEPT !.dirs = @ \cup {d}]

\* Path.rename of a regular file: rename(2).  A missing source or a missing
\* destination directory raises; an existing destination file is replaced
\* without notice; renaming a file to itself does nothing.
RenameFileRaises(f, src, dst) == ~IsFile(f, src) \/ ~IsDir(f, Dir(dst))

RenameFile(f, src, dst) ==
  IF src = dst THEN f
  ELSE [f EXCEPT !.files =
          [p \in (DOMAIN f.files \ {src}) \cup {dst} |->
             IF p = dst THEN f.files[src] ELSE f.files[p]]]

\* Path.rename of a subdirectory: a missing source raises, and so does a
\* destination directory that is not empty; an empty one is replaced.
RenameDirRaises(f, src, dst) ==
  \/ ~IsDir(f, src)
  \/ src # dst /\ IsDir(f, dst) /\ FilesIn(f, dst) # {}

RenameDir(f, src, dst) ==
  IF src = dst THEN f
  ELSE [dirs  |-> (f.dirs \ {src}) \cup {dst},
        files |-> [p \in {IF Dir(q) = src THEN <<dst, Name(q)>> ELSE q :
                            q \in DOMAIN f.files} |->
                     IF Dir(p) = dst THEN f.files[<<src, Name(p)>>]
                     ELSE f.files[p]]]

\* root_dir.glob("*/*") filtered by is_file() and the suffix test: the
\* episode files one level below the subdirectories.
EpisodeFiles(f, ext) == {p \in DOMAIN f.files : SuffixMatches(Name(p), ext)}

\* util.find_all_eps: the sorted listings of the episode files.
find_all_eps(f, lex_sort, ext) == sorted(EpisodeFiles(f, ext), lex_sort)

(***************************************************************************)
(* State                                                                   *)
(***************************************************************************)

VARIABLES
  args,         \* the parsed command line
  catalog,      \* TheTVDB's answers: [alt, official], lists of raw records
  fs,           \* the filesystem
  fs0,          \* the filesystem at the start of the run
  pc,           \* where the program is
  exc,          \* the exception that ended the run, "none" while there is none
  pl,           \* the sorted local listing
  el,           \* unmangle: the alt order Episodes
  id_to_alt,    \* unmangle: dict id -> Episode, as the list of its items
  id_to_aired,  \* unmangle, multipart: dict id -> Episode, as its items
  path_to_eps,  \* multipart: dict Path -> EpisodeGroup, as its items
  pl_index,     \* multipart: index into pl (0-based, as in the source)
  sn_num,       \* multipart: season of the previous alt order entry
  ep_num,       \* multipart: number of the previous alt order entry
  dl,           \* __main__: the directories to work on
  l,            \* __main__: the (old name, new name) pairs of one directory
  di,           \* __main__: position in the loop over dl (0-based)
  k,            \* position in the loop that is running (0-based)
  renames,      \* the log.info lines 'Renaming "a" to "b"': <<a, b>> pairs
  warnings,     \* the log.warning lines: the ids they name
  errors        \* the log.error lines: what they report

vars == <<args, catalog, fs, fs0, pc, exc, pl, el, id_to_alt, id_to_aired,
          path_to_eps, pl_index, sn_num, ep_num, dl, l, di, k,
          renames, warnings, errors>>

\* A dict as the sequence of its (key, value) items in insertion order.
RECURSIVE DictOf(_)
DictOf(eps) ==
  IF eps = <<>> THEN <<>>
  ELSE LET rest == DictOf(SubSeq(eps, 1, Len(eps) - 1))
           e    == eps[Len(eps)]
       IN  IF \E j \in DOMAIN rest : rest[j].id = e.id
           THEN [j \in DOMAIN rest |-> IF rest[j].id = e.id THEN e ELSE rest[j]]
           ELSE Append(rest, e)

Keys(d) == {d[j].id : j \in DOMAIN d}

\* dict.get(key): the sequence is empty when the key is absent.
Get(d, key) == IF key \in Keys(d)
               THEN <<d[CHOOSE j \in DOMAIN d : d[j].id = key]>>
               ELSE <<>>


(***************************************************************************)
(* Bounds and the inputs the runs are drawn from                           *)
(***************************************************************************)

\* The longest catalog answer.
MaxEps == 3

\* The most files below the series directory at the start.
MaxFiles == 3

\* The sequences over S of length at most n.
RECURSIVE SeqsUpTo(_, _)
SeqsUpTo(S, n) ==
  IF n = 0 THEN {<<>>}
  ELSE LET shorter == SeqsUpTo(S, n - 1)
       IN  shorter \cup {Append(q, x) : q \in shorter, x \in S}

SubsetsUpTo(S, n) == {T \in SUBSET S : Cardinality(T) <= n}

SeasonWord == <<"S", "e", "a", "s", "o", "n", " ">>

\* f"Season {n}"
SeasonDir(n) == SeasonWord \o str(n)

\* Names of local files.
a_mkv == <<"a", ".", "m", "k", "v">>

B_MKV == <<"B", ".", "M", "K", "V">>

a_srt == <<"a", ".", "s", "r", "t">>

s01e01_a_mkv ==
  <<"s", "0", "1", "e", "0", "1", " ", "-", "-", "-", " ">> \o a_mkv

\* A filesystem holding the files of the set P, each in its directory.
Tree(ds, P) == [dirs |-> ds \cup {Dir(p) : p \in P}, files |-> [p \in P |-> p]]

NoState ==
  /\ pl = <<>> /\ el = <<>> /\ id_to_alt = <<>> /\ id_to_aired = <<>>
  /\ path_to_eps = <<>> /\ pl_index = 0 /\ sn_num = 0 /\ ep_num = 0
  /\ dl = <<>> /\ l = <<>> /\ di = 0 /\ k = 0
  /\ renames = <<>> /\ warnings = <<>> /\ errors = <<>>
  /\ exc = "none"

(***************************************************************************)
(* unmangle.py                                                             *)
(***************************************************************************)

\* What TheTVDB may answer.  Every episode has one id in all orderings; the
\* official (aired) answer numbers it one way, the alt answer another.
\* Episode 4 is a special (season 0).  An id occurs at most once in an
\* official answer, and may recur in an alt answer.
OfficialRecords ==
  { [id |-> 1, number |-> 1, seasonNumber |-> 1],
    [id |-> 2, number |-> 2, seasonNumber |-> 1],
    [id |-> 3, number |-> 1, seasonNumber |-> 2],
    [id |-> 4, number |-> 1, seasonNumber |-> 0] }

AltRecords ==
  { [id |-> 1, number |-> 2, seasonNumber |-> 1],
    [id |-> 2, number |-> 3, seasonNumber |-> 1],
    [id |-> 3, number |-> 1, seasonNumber |-> 1] }

NoRepeat(q) == \A a, b \in DOMAIN q : a # b => q[a].id # q[b].id

AltAnswers == SeqsUpTo(AltRecords, MaxEps)

OfficialAnswers == {q \in SeqsUpTo(OfficialRecords, MaxEps) : NoRepeat(q)}

NoAnswers == [alt |-> <<>>, official |-> <<>>]

UnmangleFiles ==
  { <<SeasonDir(1), a_mkv>>, <<SeasonDir(1), B_MKV>>,
    <<SeasonDir(1), s01e01_a_mkv>>, <<SeasonDir(1), a_srt>> }

InitUnmangle ==
  /\ args \in [s : BOOLEAN, i : BOOLEAN, l : BOOLEAN, x : {<<>>}]
  /\ catalog = NoAnswers
  /\ \E P \in SubsetsUpTo(UnmangleFiles, MaxFiles) : fs = Tree({SeasonDir(1)}, P)
  /\ fs0 = fs
  /\ pc = "scan"
  /\ NoState

\* A comparison that never reports a difference.
counts_never_differ(a, b) == TRUE

\* _counts_match: the comparison; the caller logs the error line.
counts_match(a, b) == Len(a) = Len(b)

\* unmangle.py 104-110: list the local files, ask TheTVDB for the alt order
\* episodes and compare the counts.
U_Scan ==
  /\ pc = "scan"
  /\ \E q \in find_all_eps(fs, args.l, args.x), answer \in AltAnswers :
       /\ pl' = q
       /\ catalog' = [catalog EXCEPT !.alt = answer]
       /\ el' = episodes_of(answer)
       /\ errors' = IF counts_match(q, el') THEN errors
                    ELSE Append(errors, "local/alt count")
       /\ pc' = IF counts_match(q, el') \/ args.i THEN "assign" ELSE "done"
  /\ UNCHANGED <<args, fs, fs0, exc, id_to_alt, id_to_aired,
                 path_to_eps, pl_index, sn_num, ep_num, dl, l, di, k,
                 renames, warnings>>

\* An assignment that gives every episode the first local file.
assign_first_path(eps, paths) ==
  [j \in DOMAIN eps |->
     IF j <= Len(paths) THEN [eps[j] EXCEPT !.local_path = paths[1]] ELSE eps[j]]

\* for i, p in enumerate(pl): el[i].local_path = p
assign_local_paths(eps, paths) ==
  [j \in DOMAIN eps |->
     IF j <= Len(paths) THEN [eps[j] EXCEPT !.local_path = paths[j]] ELSE eps[j]]

\* unmangle.py 112-113: el[i].local_path = p for every local file; el[i]
\* raises IndexError when the listing is longer than el.
U_Assign ==
  /\ pc = "assign"
  /\ el' = assign_local_paths(el, pl)
  /\ IF Len(pl) > Len(el)
     THEN pc' = "done" /\ exc' = "IndexError"
     ELSE pc' = "lookup" /\ exc' = exc
  /\ UNCHANGED <<args, catalog, fs, fs0, pl, id_to_alt, id_to_aired,
                 path_to_eps, pl_index, sn_num, ep_num, dl, l, di, k,
                 renames, warnings, errors>>

\* unmangle.py 115-119: the two dicts, the second from TheTVDB's official
\* answer, and the comparison of their sizes.
U_Lookup ==
  /\ pc = "lookup"
  /\ id_to_alt' = DictOf(el)
  /\ \E answer \in OfficialAnswers :
       /\ catalog' = [catalog EXCEPT !.official = answer]
       /\ id_to_aired' = DictOf(episodes_of(answer))
  /\ errors' = IF counts_match(id_to_aired', id_to_alt') THEN errors
               ELSE Append(errors, "aired/alt count")
  /\ pc' = IF counts_match(id_to_aired', id_to_alt') \/ args.i THEN "mkdir" ELSE "done"
  /\ UNCHANGED <<args, fs, fs0, exc, pl, el,
                 path_to_eps, pl_index, sn_num, ep_num, dl, l, di, k,
                 renames, warnings>>

\* unmangle.py 121-123: a Season directory for every aired season, unless
\* this is a dry run.
SeasonDirs(d) == {SeasonDir(d[j].season_number) : j \in DOMAIN d}

U_Mkdir ==
  /\ pc = "mkdir"
  /\ fs' = IF args.s THEN fs
           ELSE [fs EXCEPT !.dirs = @ \cup SeasonDirs(id_to_aired)]
  /\ k' = 0
  /\ pc' = "rename"
  /\ UNCHANGED <<args, catalog, fs0, exc, pl, el, id_to_alt, id_to_aired,
                 path_to_eps, pl_index, sn_num, ep_num, dl, l, di,
                 renames, warnings, errors>>

\* unmangle.py 130: the aired order name of the file of alt_ep.
Dashes == <<" ", "-", "-", "-", " ">>

AiredLabel(aired_ep) ==
  <<"s">> \o Fmt02(aired_ep.season_number) \o <<"e">> \o Fmt02(aired_ep.episode_number)

unmangle_new_name(aired_ep, local_path) ==
  << SeasonDir(aired_ep.season_number),
     AiredLabel(aired_ep) \o Dashes \o Name(local_path) >>

\* unmangle.py 125-134: one turn of the loop over id_to_aired.items().
\* alt_ep.local_path.name raises AttributeError when local_path is None.
U_Rename ==
  /\ pc = "rename"
  /\ k < Len(id_to_aired)
  /\ LET aired_ep == id_to_aired[k + 1]
         found    == Get(id_to_alt, aired_ep.id)
     IN  IF found = <<>>
         THEN /\ warnings' = Append(warnings, aired_ep.id)
              /\ k' = k + 1
              /\ UNCHANGED <<fs, pc, exc, renames>>
         ELSE LET alt_ep == found[1] IN
              IF alt_ep.local_path = None
              THEN /\ pc' = "done" /\ exc' = "AttributeError"
                   /\ UNCHANGED <<fs, k, renames, warnings>>
              ELSE LET new_name == unmangle_new_name(aired_ep, alt_ep.local_path) IN
                   /\ renames' = Append(renames, <<alt_ep.local_path, new_name>>)
                   /\ UNCHANGED warnings
                   /\ IF args.s
                      THEN k' = k + 1 /\ UNCHANGED <<fs, pc, exc>>
                      ELSE IF RenameFileRaises(fs, alt_ep.local_path, new_name)
                      THEN pc' = "done" /\ exc' = "OSError" /\ UNCHANGED <<fs, k>>
                      ELSE /\ fs' = RenameFile(fs, alt_ep.local_path, new_name)
                           /\ k' = k + 1
                           /\ UNCHANGED <<pc, exc>>
  /\ UNCHANGED <<args, catalog, fs0, pl, el, id_to_alt, id_to_aired,
                 path_to_eps, pl_index, sn_num, ep_num, dl, l, di, errors>>

\* The loop has run through: _main returns.
U_Return ==
  /\ pc = "rename"
  /\ k = Len(id_to_aired)
  /\ pc' = "done"
  /\ UNCHANGED <<args, catalog, fs, fs0, exc, pl, el, id_to_alt, id_to_aired,
                 path_to_eps, pl_index, sn_num, ep_num, dl, l, di, k,
                 renames, warnings, errors>>

NextUnmangle == U_Scan \/ U_Assign \/ U_Lookup \/ U_Mkdir \/ U_Rename \/ U_Return

SpecUnmangle == InitUnmangle /\ [][NextUnmangle]_vars


(***************************************************************************)
(* Claims about unmangle                                                   *)
(***************************************************************************)

Range(q) == {q[j] : j \in DOMAIN q}

Distinct(q) == \A a, b \in DOMAIN q : a # b => q[a].id # q[b].id

Sources == [j \in DOMAIN renames |-> renames[j][1]]

NoPathAssigned == \A j \in DOMAIN el : el[j].local_path = None

\* N local files, N alt order episodes, N aired order episodes, ids distinct
\* within each list, every aired id among the alt ids.
C1_Pre ==
  LET alt   == episodes_of(catalog.alt)
      aired == episodes_of(catalog.official)
  IN  /\ Len(pl) = Len(alt)
      /\ Len(aired) = Len(alt)
      /\ Distinct(alt) /\ Distinct(aired)
      /\ \A j \in DOMAIN aired : \E h \in DOMAIN alt : alt[h].id = aired[j].id

\* C1: when unmangle ends a run over N local files, N alt order and N aired
\* order episodes with distinct ids that all cross-reference, the plan has N
\* entries and every local file is the source of exactly one of them.
C1_Bijection ==
  (pc = "done" /\ C1_Pre) =>
     /\ exc = "none"
     /\ Len(renames) = Len(pl)
     /\ \A j \in DOMAIN pl :
          Cardinality({r \in DOMAIN renames : renames[r][1] = pl[j]}) = 1

\* A run that renamed two files, the second listed file first.
C1_Witness ==
  /\ pc = "done" /\ C1_Pre /\ ~args.s
  /\ Len(pl) >= 2 /\ Len(renames) = Len(pl)
  /\ renames[1][1] = pl[2]

\* C2 as stated: without -i, a difference of either pair of counts stops
\* the run with an error line before any local path is assigned, any
\* directory is created or any file is renamed.
C2_StopsBeforeAssigning ==
  ~args.i =>
    /\ (pc \notin {"scan"} /\ Len(pl) # Len(el)) =>
          /\ pc = "done" /\ exc = "none" /\ errors = <<"local/alt count">>
          /\ NoPathAssigned /\ renames = <<>> /\ fs = fs0
    /\ (pc \notin {"scan", "assign", "lookup"} /\ Len(id_to_aired) # Len(id_to_alt)) =>
          /\ pc = "done" /\ exc = "none" /\ errors = <<"aired/alt count">>
          /\ NoPathAssigned /\ renames = <<>> /\ fs = fs0

\* C2, amended: without -i, a difference between the numbers of local files
\* and alt order episodes stops the run with an error line before any local
\* path is assigned; a difference between the numbers of distinct aired and
\* alt ids stops it with an error line after every local path was assigned.
\* Either way no directory is created, no file is renamed and the plan is
\* empty.
C2_StopsBeforeRenaming ==
  ~args.i =>
    /\ (pc \notin {"scan"} /\ Len(pl) # Len(el)) =>
          /\ pc = "done" /\ exc = "none" /\ errors = <<"local/alt count">>
          /\ NoPathAssigned /\ renames = <<>> /\ fs = fs0
    /\ (pc \notin {"scan", "assign", "lookup"} /\ Len(id_to_aired) # Len(id_to_alt)) =>
          /\ pc = "done" /\ exc = "none" /\ errors = <<"aired/alt count">>
          /\ \A j \in DOMAIN el : el[j].local_path = pl[j]
          /\ renames = <<>> /\ fs = fs0

\* A real run that stopped on the second comparison, local paths assigned.
C2_Witness ==
  /\ ~args.i /\ ~args.s /\ pc = "done"
  /\ errors = <<"aired/alt count">>
  /\ Len(el) = 2 /\ id_to_aired # <<>>

\* The run got as far as the loop over the aired episodes.
LoopEntered ==
  \/ pc = "rename"
  \/ pc = "done" /\ exc # "IndexError" /\ (args.i \/ errors = <<>>)

Min(a, b) == IF a < b THEN a ELSE b

\* C6: with -i and different numbers of local files and alt order episodes,
\* local paths are assigned below the smaller of the two numbers only, the
\* run completes without an exception, and the plan holds exactly the aired
\* episodes whose alt order record received a local path.
C6_PartialAssignment ==
  (args.i /\ pc = "done" /\ Len(pl) # Len(el)) =>
     /\ exc = "none"
     /\ \A j \in DOMAIN el :
          el[j].local_path = IF j <= Min(Len(pl), Len(el)) THEN pl[j] ELSE None
     /\ Range(Sources) =
          {e.local_path : e \in {x \in Range(id_to_alt) :
                                   /\ x.local_path # None
                                   /\ x.id \in Keys(id_to_aired)}}

\* The aired episode has a plan entry: its alt order record's local file,
\* renamed to the label of the aired episode.
HasEntry(aired_ep) ==
  LET found == Get(id_to_alt, aired_ep.id)
  IN  /\ found # <<>>
      /\ found[1].local_path # None
      /\ <<found[1].local_path, unmangle_new_name(aired_ep, found[1].local_path)>>
           \in Range(renames)

\* No plan entry carries the label of the aired episode.
HasNoEntry(aired_ep) ==
  \A r \in DOMAIN renames :
     Dir(renames[r][2]) = SeasonDir(aired_ep.season_number) =>
       SubSeq(Name(renames[r][2]), 1, Len(AiredLabel(aired_ep))) # AiredLabel(aired_ep)

Absent(aired_ep) == Get(id_to_alt, aired_ep.id) = <<>>

SkippedAndContinued ==
  \A j \in DOMAIN id_to_aired :
     Absent(id_to_aired[j]) =>
        /\ id_to_aired[j].id \in Range(warnings)
        /\ HasNoEntry(id_to_aired[j])
        /\ \A h \in DOMAIN id_to_aired :
             ~Absent(id_to_aired[h]) => HasEntry(id_to_aired[h])

\* C7: an aired episode whose id is not among the alt ids gets a warning
\* and no plan entry, and every aired episode whose id is among them gets
\* its plan entry all the same.
C7_SkipAndContinue == (pc = "done" /\ LoopEntered) => SkippedAndContinued

\* The same for the runs in which every alt order record has a local path.
C7_SkipAndContinueAllAssigned ==
  (pc = "done" /\ LoopEntered /\ \A j \in DOMAIN el : el[j].local_path # None)
    => SkippedAndContinued

\* A run that skipped the first aired episode and renamed for the second.
C7_SkippedOne ==
  /\ pc = "done" /\ exc = "none" /\ Len(id_to_aired) = 2
  /\ Absent(id_to_aired[1]) /\ HasEntry(id_to_aired[2])


(***************************************************************************)
(* multipart.py                                                            *)
(***************************************************************************)

\* The name of the series directory (p.parent.parent.name of a local file,
\* dir.resolve().parent.name of a season directory).
SeriesName == <<"P">>

A_mkv == <<"A", ".", "m", "k", "v">>

x_MKV == <<"x", ".", "M", "K", "V">>

P_s01e02_mkv ==
  SeriesName \o <<" ", "-", " ", "s", "0", "1", "e", "0", "2">> \o mkv

MultipartFiles ==
  { <<SeasonDir(1), A_mkv>>, <<SeasonDir(1), P_s01e02_mkv>>,
    <<SeasonDir(1), x_MKV>>, <<SeasonDir(1), a_srt>> }

\* The alt answers: several ids may share one (number, season) pair, which
\* is how a combined file shows.
MultipartAltRecords ==
  { [id |-> 1, number |-> 1, seasonNumber |-> 1],
    [id |-> 2, number |-> 1, seasonNumber |-> 1],
    [id |-> 3, number |-> 1, seasonNumber |-> 1],
    [id |-> 1, number |-> 2, seasonNumber |-> 1],
    [id |-> 2, number |-> 2, seasonNumber |-> 1],
    [id |-> 3, number |-> 2, seasonNumber |-> 1],
    [id |-> 3, number |-> 1, seasonNumber |-> 2],
    [id |-> 4, number |-> 1, seasonNumber |-> 0] }

\* The official answers: every id is numbered; the order of an answer does
\* not matter to a dict, so the answers are in ascending id order.
MultipartOfficialRecords ==
  { [id |-> 1, number |-> 1, seasonNumber |-> 1],
    [id |-> 2, number |-> 2, seasonNumber |-> 1],
    [id |-> 3, number |-> 3, seasonNumber |-> 1],
    [id |-> 4, number |-> 1, seasonNumber |-> 0] }

MultipartAltAnswers == SeqsUpTo(MultipartAltRecords, MaxEps)

MultipartOfficialAnswers ==
  {q \in SeqsUpTo(MultipartOfficialRecords, MaxEps + 1) :
     \A a, b \in DOMAIN q : a < b => q[a].id < q[b].id}

InitMultipart ==
  /\ args \in [s : BOOLEAN, l : BOOLEAN, x : {<<>>}]
  /\ catalog = NoAnswers
  /\ \E P \in SubsetsUpTo(MultipartFiles, MaxFiles) : fs = Tree({SeasonDir(1)}, P)
  /\ fs0 = fs
  /\ pc = "scan"
  /\ NoState

\* multipart.py 72-81: the listing, the aired episodes by id, and the alt
\* order episodes the loop walks.
M_Scan ==
  /\ pc = "scan"
  /\ \E q \in find_all_eps(fs, args.l, args.x),
        official \in MultipartOfficialAnswers, alt \in MultipartAltAnswers :
       /\ pl' = q
       /\ catalog' = [alt |-> alt, official |-> official]
       /\ id_to_aired' = DictOf(episodes_of(official))
       /\ el' = episodes_of(alt)
  /\ path_to_eps' = <<>>
  /\ pl_index' = 0
  /\ sn_num' = 1
  /\ ep_num' = 1
  /\ k' = 0
  /\ pc' = "group"
  /\ UNCHANGED <<args, fs, fs0, exc, id_to_alt, dl, l, di, renames, warnings, errors>>

\* EpisodeGroup.__init__
EpisodeGroup(p, group_season, mapped_eps) ==
  [p |-> p, group_season |-> group_season, mapped_eps |-> mapped_eps]

\* multipart.py 82-85: the index of the file of entry e, whose predecessor
\* had the pair <<ep_num, sn_num>>.
next_pl_index(e, pair, index) ==
  IF e.episode_number # pair[1] \/ e.season_number # pair[2]
  THEN index + 1 ELSE index

\* multipart.py 81-91: one turn of the loop over the alt order episodes.
\* id_to_aired[e.id] raises KeyError, pl[pl_index] raises IndexError.
M_Group ==
  /\ pc = "group"
  /\ k < Len(el)
  /\ LET e       == el[k + 1]
         changed == e.episode_number # ep_num \/ e.season_number # sn_num
         index   == next_pl_index(e, <<ep_num, sn_num>>, pl_index)
         sn      == IF changed THEN e.season_number ELSE sn_num
         found   == Get(id_to_aired, e.id)
     IN  /\ ep_num' = IF changed THEN e.episode_number ELSE ep_num
         /\ sn_num' = sn
         /\ pl_index' = index
         /\ IF found = <<>>
            THEN pc' = "done" /\ exc' = "KeyError" /\ UNCHANGED <<path_to_eps, k>>
            ELSE IF index >= Len(pl)
            THEN pc' = "done" /\ exc' = "IndexError" /\ UNCHANGED <<path_to_eps, k>>
            ELSE LET curr_path     == pl[index + 1]
                     mapped_ep_num == found[1].episode_number
                 IN  /\ path_to_eps' =
                          IF \E g \in DOMAIN path_to_eps : path_to_eps[g].p = curr_path
                          THEN [g \in DOMAIN path_to_eps |->
                                  IF path_to_eps[g].p = curr_path
                                  THEN [path_to_eps[g] EXCEPT
                                          !.mapped_eps = Append(@, mapped_ep_num)]
                                  ELSE path_to_eps[g]]
                          ELSE Append(path_to_eps,
                                      EpisodeGroup(curr_path, sn, <<mapped_ep_num>>))
                     /\ k' = k + 1
                     /\ UNCHANGED <<pc, exc>>
  /\ UNCHANGED <<args, catalog, fs, fs0, pl, el, id_to_alt, id_to_aired, dl, l, di,
                 renames, warnings, errors>>

\* multipart.py 93: the first loop has run through, the second starts.
M_Grouped ==
  /\ pc = "group"
  /\ k = Len(el)
  /\ k' = 0
  /\ pc' = "rename"
  /\ UNCHANGED <<args, catalog, fs, fs0, exc, pl, el, id_to_alt, id_to_aired,
                 path_to_eps, pl_index, sn_num, ep_num, dl, l, di,
                 renames, warnings, errors>>

\* min() and max() of a list of numbers.
min(q) == CHOOSE m \in Range(q) : \A n \in Range(q) : m <= n

max(q) == CHOOSE m \in Range(q) : \A n \in Range(q) : m >= n

\* A label that takes the first and the last number of the list.
first_last_label(mapped_eps) ==
  IF Len(mapped_eps) = 1 THEN Fmt02(mapped_eps[1])
  ELSE Fmt02(mapped_eps[1]) \o <<"-", "e">> \o Fmt02(mapped_eps[Len(mapped_eps)])

\* multipart.py 37: eps, the text after the "e" of the new name.
eps_label(mapped_eps) ==
  IF Len(mapped_eps) = 1 THEN Fmt02(mapped_eps[1])
  ELSE Fmt02(min(mapped_eps)) \o <<"-", "e">> \o Fmt02(max(mapped_eps))

\* multipart.py 38: the new name of the file of a group.
group_new_name(eg) ==
  << Dir(eg.p),
     SeriesName \o <<" ", "-", " ", "s">> \o Fmt02(eg.group_season) \o <<"e">>
       \o eps_label(eg.mapped_eps) \o Suffix(Name(eg.p)) >>

\* EpisodeGroup.rename(dry_run), multipart.py 31-42, applied to the k-th
\* group by the loop of multipart.py 93-94.
M_Rename ==
  /\ pc = "rename"
  /\ k < Len(path_to_eps)
  /\ LET eg       == path_to_eps[k + 1]
         new_name == group_new_name(eg)
     IN  /\ renames' = Append(renames, <<eg.p, new_name>>)
         /\ IF args.s
            THEN k' = k + 1 /\ UNCHANGED <<fs, pc, exc>>
            ELSE IF RenameFileRaises(fs, eg.p, new_name)
            THEN pc' = "done" /\ exc' = "OSError" /\ UNCHANGED <<fs, k>>
            ELSE /\ fs' = RenameFile(fs, eg.p, new_name)
                 /\ k' = k + 1
                 /\ UNCHANGED <<pc, exc>>
  /\ UNCHANGED <<args, catalog, fs0, pl, el, id_to_alt, id_to_aired,
                 path_to_eps, pl_index, sn_num, ep_num, dl, l, di, warnings, errors>>

M_Return ==
  /\ pc = "rename"
  /\ k = Len(path_to_eps)
  /\ pc' = "done"
  /\ UNCHANGED <<args, catalog, fs, fs0, exc, pl, el, id_to_alt, id_to_aired,
                 path_to_eps, pl_index, sn_num, ep_num, dl, l, di, k,
                 renames, warnings, errors>>

NextMultipart == M_Scan \/ M_Group \/ M_Grouped \/ M_Rename \/ M_Return

SpecMultipart == InitMultipart /\ [][NextMultipart]_vars


(***************************************************************************)
(* EpisodeGroup.rename on its own: groups drawn from bounded sets          *)
(***************************************************************************)

\* The most episode numbers in one group.
MaxGroup == 3

EpisodeNumbers == {3, 4, 7, 12}

GroupSeasons == {1, 12}

InitGroup ==
  /\ args \in [s : BOOLEAN, l : {FALSE}, x : {<<>>}]
  /\ catalog = NoAnswers
  /\ fs = Tree({SeasonDir(1)}, MultipartFiles)
  /\ fs0 = fs
  /\ pc = "rename"
  /\ \E p \in MultipartFiles, group_season \in GroupSeasons,
        mapped_eps \in SeqsUpTo(EpisodeNumbers, MaxGroup) \ {<<>>} :
       path_to_eps = <<EpisodeGroup(p, group_season, mapped_eps)>>
  /\ pl = <<>> /\ el = <<>> /\ id_to_alt = <<>> /\ id_to_aired = <<>>
  /\ pl_index = 0 /\ sn_num = 0 /\ ep_num = 0
  /\ dl = <<>> /\ l = <<>> /\ di = 0 /\ k = 0
  /\ renames = <<>> /\ warnings = <<>> /\ errors = <<>>
  /\ exc = "none"

NextGroup == M_Rename \/ M_Return

SpecGroup == InitGroup /\ [][NextGroup]_vars

(***************************************************************************)
(* __main__.py                                                             *)
(***************************************************************************)

\* The most subdirectories of the series directory at the start.
MaxDirs == 2

Extras == <<"E", "x", "t", "r", "a", "s">>

\* The subdirectories a series directory may hold at the start.
RenameDirs == {Extras, SeasonDir(0), SeasonDir(1), SeasonDir(2)}

P_s01e01_mkv ==
  SeriesName \o <<" ", "-", " ", "s", "0", "1", "e", "0", "1">> \o mkv

e2_mkv == <<"e", "2">> \o mkv

e10_MKV == <<"e", "1", "0", ".", "M", "K", "V">>

\* The files they may hold: Season 1 any of five, the others one.
RenameFiles ==
  {<<SeasonDir(1), n>> : n \in {A_mkv, P_s01e01_mkv, e2_mkv, e10_MKV, a_srt}}
    \cup {<<d, A_mkv>> : d \in RenameDirs}

RenameTrees ==
  {Tree(ds, P) : ds \in SubsetsUpTo(RenameDirs, MaxDirs),
                 P \in SubsetsUpTo(RenameFiles, MaxFiles)}

srt == <<".", "s", "r", "t">>

\* The command lines.  -n is 0 when it is not passed: None and 0 are both
\* false where the option is read.  With -d the series directory is the
\* one directory worked on, named or as the current directory, and -x, -n
\* and -p are not read; without -d the directories are subdirectories of the
\* series directory, or none is named and the current directory is it.
RenameArgs(f) ==
  [s : BOOLEAN, d : {TRUE}, l : BOOLEAN, x : {<<>>}, n : {0}, p : {<<>>},
   dirs : {<<>>, <<SeriesName>>}]
    \cup
  [s : BOOLEAN, d : {FALSE}, l : BOOLEAN, x : {<<>>, srt}, n : {0, 3},
   p : {<<>>, <<"Q">>},
   dirs : {q \in SeqsUpTo(f.dirs, MaxDirs) :
             \A a, b \in DOMAIN q : a # b => q[a] # q[b]}]

InitRename ==
  /\ fs \in RenameTrees
  /\ fs0 = fs
  /\ args \in RenameArgs(fs)
  /\ catalog = NoAnswers
  /\ pc = "start"
  /\ NoState

\* re.match(r"(?i)Season \d+", name)
SeasonMatch(name) ==
  /\ Len(name) > Len(SeasonWord)
  /\ lower(SubSeq(name, 1, Len(SeasonWord))) = lower(SeasonWord)
  /\ IsDigitChar(name[Len(SeasonWord) + 1])

\* name.split(" ")[1] of a name with a space in it.
SecondField(name) ==
  LET spaces == {h \in DOMAIN name : name[h] = " "}
      first  == CHOOSE h \in spaces : \A g \in spaces : h <= g
      later  == {h \in spaces : h > first}
      stop   == IF later = {} THEN Len(name) + 1
                ELSE CHOOSE h \in later : \A g \in later : h <= g
  IN  SubSeq(name, first + 1, stop - 1)

\* __main__.py 33-37: the directories to work on.  iterdir() lists the
\* current directory in an order the filesystem chooses.
TargetDirs(f, a) ==
  IF a.dirs # <<>> THEN {a.dirs}
  ELSE IF a.d THEN {<<SeriesName>>}
  ELSE Orderings({c \in f.dirs : SeasonMatch(c)})

\* __main__.py 31-44: what to work on, and the two refusals.
R_Start ==
  /\ pc = "start"
  /\ \E q \in TargetDirs(fs, args) :
       /\ dl' = q
       /\ IF q = <<>>
          THEN errors' = Append(errors, "no target directory") /\ pc' = "done"
          ELSE IF args.n # 0 /\ Len(q) > 1
          THEN errors' = Append(errors, "-n with multiple dirs") /\ pc' = "done"
          ELSE errors' = errors /\ pc' = "dir"
  /\ di' = 0
  /\ UNCHANGED <<args, catalog, fs, fs0, exc, pl, el, id_to_alt, id_to_aired,
                 path_to_eps, pl_index, sn_num, ep_num, l, k, renames, warnings>>

\* A season number that falls back on season 1 when neither the name nor -n
\* gives one.
season_cnt_or_one(name, n) ==
  IF SeasonMatch(name) THEN int(SecondField(name)) ELSE IF n # 0 THEN n ELSE 1

\* __main__.py 52: int(dir.name.split(" ")[1]) if the name matches, else -n.
season_cnt(name, n) == IF SeasonMatch(name) THEN int(SecondField(name)) ELSE n

\* int() raises ValueError for a field that is not a number.
SeasonRaises(name) == SeasonMatch(name) /\ ~isdigit(SecondField(name))

\* __main__.py 57: the prefix of the episode names.
Prefix(a) == (IF Len(a.p) > 0 THEN a.p ELSE SeriesName) \o <<" ", "-", " ">>

\* __main__.py 50: the pairs of directory mode, the subdirectories in sorted
\* order numbered from 1.
season_plans(f, a) ==
  {[h \in DOMAIN q |-> <<q[h], <<SeriesName, SeasonDir(h)>> >>] :
     q \in sorted({<<SeriesName, c>> : c \in f.dirs}, a.l)}

\* __main__.py 58: dir / f"{prefix}s{season_cnt:02}e{i:02}{s.suffix}"
episode_new_name(a, dir, season, i, s) ==
  <<dir, Prefix(a) \o <<"s">> \o Fmt02(season) \o <<"e">> \o Fmt02(i)
           \o Suffix(Name(s))>>

\* __main__.py 56-58: the pairs of file mode for the directory dir, its
\* files with a wanted suffix in sorted order numbered from 1.
episode_plans(f, a, dir, season) ==
  {[h \in DOMAIN q |-> <<q[h], episode_new_name(a, dir, season, h, q[h])>>] :
     q \in sorted({f0 \in FilesIn(f, dir) : SuffixMatches(Name(f0), a.x)}, a.l)}

\* __main__.py 46-58: the next directory and its pairs, or the refusal of a
\* directory whose season number is false.
R_Dir ==
  /\ pc = "dir"
  /\ di < Len(dl)
  /\ LET dir == dl[di + 1]
         season == season_cnt(dir, args.n)
     IN
       IF args.d
       THEN /\ \E q \in season_plans(fs, args) : l' = q
            /\ pc' = "rename"
            /\ UNCHANGED <<exc, errors>>
       ELSE IF SeasonRaises(dir)
       THEN pc' = "done" /\ exc' = "ValueError" /\ UNCHANGED <<l, errors>>
       ELSE IF season = 0
       THEN /\ errors' = Append(errors, "no season number")
            /\ pc' = "done"
            /\ UNCHANGED <<l, exc>>
       ELSE /\ \E q \in episode_plans(fs, args, dir, season) : l' = q
            /\ pc' = "rename"
            /\ UNCHANGED <<exc, errors>>
  /\ k' = 0
  /\ UNCHANGED <<args, catalog, fs, fs0, pl, el, id_to_alt, id_to_aired,
                 path_to_eps, pl_index, sn_num, ep_num, dl, di, renames, warnings>>

\* __main__.py 60-63: one pair: the log line and, unless this is a dry run,
\* the rename.
R_Rename ==
  /\ pc = "rename"
  /\ k < Len(l)
  /\ LET old_name == l[k + 1][1]
         new_name == l[k + 1][2]
     IN  /\ renames' = Append(renames, <<old_name, new_name>>)
         /\ IF args.s
            THEN k' = k + 1 /\ UNCHANGED <<fs, pc, exc>>
            ELSE IF args.d
            THEN IF RenameDirRaises(fs, Name(old_name), Name(new_name))
                 THEN pc' = "done" /\ exc' = "OSError" /\ UNCHANGED <<fs, k>>
                 ELSE /\ fs' = RenameDir(fs, Name(old_name), Name(new_name))
                      /\ k' = k + 1
                      /\ UNCHANGED <<pc, exc>>
            ELSE IF RenameFileRaises(fs, old_name, new_name)
                 THEN pc' = "done" /\ exc' = "OSError" /\ UNCHANGED <<fs, k>>
                 ELSE /\ fs' = RenameFile(fs, old_name, new_name)
                      /\ k' = k + 1
                      /\ UNCHANGED <<pc, exc>>
  /\ UNCHANGED <<args, catalog, fs0, pl, el, id_to_alt, id_to_aired,
                 path_to_eps, pl_index, sn_num, ep_num, dl, l, di, warnings, errors>>

\* The pairs of this directory are done: on to the next directory.
R_NextDir ==
  /\ pc = "rename"
  /\ k = Len(l)
  /\ di' = di + 1
  /\ pc' = "dir"
  /\ UNCHANGED <<args, catalog, fs, fs0, exc, pl, el, id_to_alt, id_to_aired,
                 path_to_eps, pl_index, sn_num, ep_num, dl, l, k,
                 renames, warnings, errors>>

\* Every directory is done: _main returns.
R_Return ==
  /\ pc = "dir"
  /\ di = Len(dl)
  /\ pc' = "done"
  /\ UNCHANGED <<args, catalog, fs, fs0, exc, pl, el, id_to_alt, id_to_aired,
                 path_to_eps, pl_index, sn_num, ep_num, dl, l, di, k,
                 renames, warnings, errors>>

NextRename == R_Start \/ R_Dir \/ R_Rename \/ R_NextDir \/ R_Return

SpecRename == InitRename /\ [][NextRename]_vars

(***************************************************************************)
(* Claims about multipart                                                  *)
(***************************************************************************)

Pair(e) == <<e.episode_number, e.season_number>>

\* The number of the maximal run of equal pairs that entry j of el is in.
RunOf(j) == 1 + Cardinality({h \in 2..j : Pair(el[h]) # Pair(el[h - 1])})

NRuns == IF el = <<>> THEN 0 ELSE RunOf(Len(el))

AiredNumber(id) == Get(id_to_aired, id)[1].episode_number

\* The aired numbers of the entries of run r, in the order of el.
RECURSIVE RunNumbers(_, _)
RunNumbers(r, n) ==
  IF n = 0 THEN <<>>
  ELSE RunNumbers(r, n - 1)
       \o (IF RunOf(n) = r THEN <<AiredNumber(el[n].id)>> ELSE <<>>)

\* The walk can be done: every alt id is an aired id, and there is a file
\* for every run.
Groupable ==
  /\ \A j \in DOMAIN el : el[j].id \in Keys(id_to_aired)
  /\ NRuns <= Len(pl)

\* C3: once the alt order sequence is walked, the k-th maximal run of
\* entries with one (episode_number, season_number) pair is grouped under
\* the k-th file of the listing, the first run under the first file, and the
\* group holds the aired numbers of the run's entries in first-seen order.
C3_RunsToFiles ==
  (pc \in {"rename", "done"} /\ Groupable) =>
     /\ Len(path_to_eps) = NRuns
     /\ \A r \in DOMAIN path_to_eps :
          /\ path_to_eps[r].p = pl[r]
          /\ path_to_eps[r].mapped_eps = RunNumbers(r, Len(el))

\* The same, for the alt order sequences that start with episode 1 of
\* season 1 (the pair the walk starts from).
C3_RunsToFilesFromS1E1 ==
  (pc \in {"rename", "done"} /\ Groupable
     /\ el # <<>> /\ Pair(el[1]) = <<1, 1>>) =>
     /\ Len(path_to_eps) = NRuns
     /\ \A r \in DOMAIN path_to_eps :
          /\ path_to_eps[r].p = pl[r]
          /\ path_to_eps[r].mapped_eps = RunNumbers(r, Len(el))

\* n as two decimal digits (n < 100).
Pad2(n) == <<Digits[(n \div 10) + 1], Digits[(n % 10) + 1]>>

Least(S) == CHOOSE m \in S : \A n \in S : m <= n

Greatest(S) == CHOOSE m \in S : \A n \in S : m >= n

\* C9: the file of a group is renamed to a name that ends with the season
\* label, the episode label and the suffix of the file, where the episode
\* label is e{n:02} for a group of one number n, and e{min:02}-e{max:02} for
\* a group of several, min and max the smallest and largest number of the
\* group in whatever order they were collected.
C9_Label ==
  \A r \in DOMAIN renames :
     LET eg    == path_to_eps[r]
         nums  == Range(eg.mapped_eps)
         label == IF Len(eg.mapped_eps) = 1
                  THEN <<"e">> \o Pad2(eg.mapped_eps[1])
                  ELSE <<"e">> \o Pad2(Least(nums)) \o <<"-", "e">> \o Pad2(Greatest(nums))
         ending == <<"s">> \o Pad2(eg.group_season) \o label \o Suffix(Name(eg.p))
         name   == Name(renames[r][2])
     IN  /\ renames[r][1] = eg.p
         /\ Len(name) >= Len(ending)
         /\ SubSeq(name, Len(name) - Len(ending) + 1, Len(name)) = ending

\* A group collected as [4, 3] was renamed.
C9_Witness ==
  /\ pc = "done" /\ ~args.s
  /\ Len(renames) = 1
  /\ path_to_eps[1].mapped_eps = <<4, 3>>
  /\ IsFile(fs, renames[1][2])


(***************************************************************************)
(* Claims about __main__.py                                                *)
(***************************************************************************)

\* What a path of a plan names at the moment: in directory mode a
\* subdirectory of the series directory, in file mode a file.
Exists(f, a, p) == IF a.d THEN IsDir(f, Name(p)) ELSE IsFile(f, p)

\* C4: when a rename of the plan is about to be executed, its destination
\* names nothing that exists, unless it is the source itself; and so nothing
\* the directories held at the start is lost at any point of the run.
C4_DestinationFree ==
  /\ (pc = "rename" /\ k < Len(l) /\ ~args.s) =>
       LET old_name == l[k + 1][1]
           new_name == l[k + 1][2]
       IN  new_name = old_name \/ ~Exists(fs, args, new_name)
  /\ \A p \in DOMAIN fs0.files : \E q \in DOMAIN fs.files : fs.files[q] = p

\* What the dry run logs for the directories q, worked on in this order,
\* when the directories are as they were at the start.
RECURSIVE DryRunLogs(_)
DryRunLogs(q) ==
  IF q = <<>> THEN {<<>>}
  ELSE IF args.d
  THEN {a \o b : a \in season_plans(fs0, args), b \in DryRunLogs(Tail(q))}
  ELSE IF season_cnt(Head(q), args.n) = 0 THEN {<<>>}
  ELSE {a \o b : a \in episode_plans(fs0, args, Head(q), season_cnt(Head(q), args.n)),
                 b \in DryRunLogs(Tail(q))}

\* The run has ended after it passed the checks of the command line.
Ended == pc = "done" /\ dl # <<>> /\ ~(args.n # 0 /\ Len(dl) > 1)

\* C5: the run without -s logs the pairs the run with -s logs, and the run
\* with -s leaves the directories as they were.
C5_DryRunSamePlan ==
  /\ (Ended /\ ~args.s) => renames \in DryRunLogs(dl)
  /\ args.s => fs = fs0

\* The listing of the directory dir at the start, numbered from 1: the
\* names the files become, with the season number of the directory name or,
\* for a name that is not Season N, the number of -n.
Renumbered(dir) ==
  LET season == IF SeasonMatch(dir) THEN int(SecondField(dir)) ELSE args.n
      listing == sorted({p \in FilesIn(fs0, dir) :
                           lower(Suffix(Name(p))) \in ExtsOf(args.x)}, args.l)
  IN  {[i \in DOMAIN q |->
          <<q[i], <<dir, Prefix(args) \o <<"s">> \o Pad2(season) \o <<"e">>
                           \o Pad2(i) \o Suffix(Name(q[i]))>> >>] :
         q \in listing}

\* The subdirectories at the start, numbered from 1.
RenumberedSeasons ==
  {[i \in DOMAIN q |-> <<q[i], <<SeriesName, SeasonWord \o str(i)>> >>] :
     q \in sorted({<<SeriesName, c>> : c \in fs0.dirs}, args.l)}

RECURSIVE RenumberedAll(_)
RenumberedAll(q) ==
  IF q = <<>> THEN {<<>>}
  ELSE {a \o b : a \in Renumbered(Head(q)), b \in RenumberedAll(Tail(q))}

\* The season number of every directory worked on can be told, from its
\* name or from -n.
SeasonsKnown == \A j \in DOMAIN dl : SeasonMatch(dl[j]) \/ args.n # 0

\* C10: a run that ended without an exception renamed the i-th entry of
\* every sorted listing to number i: the subdirectories to Season i in
\* directory mode, the files of each directory to s{season}e{i} in file
\* mode, where the season number is that of the name Season N or else -n.
C10_Renumbered ==
  (Ended /\ exc = "none") =>
     IF args.d THEN renames \in RenumberedSeasons
     ELSE SeasonsKnown => renames \in RenumberedAll(dl)

\* The same for the directories whose season number is not 0.
C10_RenumberedFromSeason1 ==
  (Ended /\ exc = "none") =>
     IF args.d THEN renames \in RenumberedSeasons
     ELSE (SeasonsKnown /\ \A j \in DOMAIN dl : season_cnt(dl[j], args.n) # 0)
            => renames \in RenumberedAll(dl)


(***************************************************************************)
(* The scan for episode files by itself: util.find_all_eps applied to      *)
(* directories of files with suffixes of several spellings, under every    *)
(* override of the extensions.                                             *)
(***************************************************************************)

\* The most files in the directory scanned.
MaxScan == 3

Show == <<"S", "h", "o", "w">>

ScanNames ==
  {Show \o mkv, Show \o <<".", "M", "K", "V">>, Show \o srt,
   Show \o <<".", "S", "R", "T">>, Show \o mp4, Show}

\* The values of -x: not passed, or an extension in either case.
ScanOverrides == {<<>>, srt, <<".", "S", "R", "T">>, mkv, <<".", "M", "k", "v">>}

InitScan ==
  /\ \E N \in SubsetsUpTo(ScanNames, MaxScan) :
       fs = Tree({SeasonDir(1)}, {<<SeasonDir(1), n>> : n \in N})
  /\ fs0 = fs
  /\ args \in [s : {FALSE}, l : BOOLEAN, x : ScanOverrides]
  /\ catalog = NoAnswers
  /\ pc = "scan"
  /\ NoState

\* util.py 110-111: find_all_eps, the scan that unmangle.py 105-106 and
\* multipart.py 72-74 spell out in the same words.
S_Scan ==
  /\ pc = "scan"
  /\ \E q \in find_all_eps(fs, args.l, args.x) : pl' = q
  /\ pc' = "done"
  /\ UNCHANGED <<args, catalog, fs, fs0, exc, el, id_to_alt, id_to_aired,
                 path_to_eps, pl_index, sn_num, ep_num, dl, l, di, k,
                 renames, warnings, errors>>

NextScan == S_Scan

SpecScan == InitScan /\ [][NextScan]_vars

\* The active extensions: those of the default, or the one of the override.
ActiveExts == IF args.x = <<>> THEN {mkv, mp4, avi} ELSE {args.x}

\* C8: the scan lists a file exactly when its suffix is one of the active
\* extensions, letter case set aside on both sides; an override replaces
\* the default extensions.
C8_SelectedIffSuffixActive ==
  pc = "done" =>
    \A p \in DOMAIN fs.files :
       p \in Range(pl) <=> \E e \in ActiveExts : lower(Suffix(Name(p))) = lower(e)

\* The same for the overrides written in lower case.
C8_SelectedIffLowerCaseOverride ==
  (pc = "done" /\ args.x = lower(args.x)) =>
    \A p \in DOMAIN fs.files :
       p \in Range(pl) <=> \E e \in ActiveExts : lower(Suffix(Name(p))) = lower(e)


(***************************************************************************)
(* Further claims about unmangle.py                                        *)
(***************************************************************************)

\* The name the file p gets for season s, episode e: Season {s} and
\* s{s:02}e{e:02} before the dashes and the old name.
BridgedName(p, s, e) ==
  <<SeasonWord \o str(s),
    <<"s">> \o Pad2(s) \o <<"e">> \o Pad2(e) \o <<" ", "-", "-", "-", " ">> \o Name(p)>>

\* The plan entry of the file at position i of the listing: the file,
\* renamed after the aired episode that has the id of el[i].
Bridged(i) ==
  LET aired == Get(id_to_aired, el[i].id)
  IN  <<pl[i], BridgedName(pl[i], aired[1].season_number, aired[1].episode_number)>>

\* Position i has a file, an alt order episode and, by id, an aired episode.
Bridgeable(i) ==
  /\ i <= Len(pl) /\ i <= Len(el)
  /\ Get(id_to_aired, el[i].id) # <<>>

\* Every plan entry is the entry of some position.
EntriesBridged ==
  \A r \in DOMAIN renames :
     \E i \in DOMAIN pl : Bridgeable(i) /\ renames[r] = Bridged(i)

\* Every position that can be bridged has its entry in the plan.
PositionsBridged ==
  \A i \in DOMAIN pl : Bridgeable(i) => Bridged(i) \in Range(renames)

\* C11: the file at position i of the listing is renamed into Season {s}
\* with the label s{s:02}e{e:02}, (s, e) the season and episode number of
\* the aired episode that has the id of the alt order episode at position i,
\* wherever that episode stands in the aired order and whatever the alt
\* order numbers are: every plan entry is such a rename, and once the loop
\* over the aired episodes was entered and the run has ended, every such
\* position has its entry.  The alt ids are taken to be distinct.
C11_PositionThenId ==
  /\ EntriesBridged
  /\ (pc = "done" /\ LoopEntered /\ Distinct(el)) => PositionsBridged

\* The same for the runs in which every alt order record has a local path.
C11_PositionThenIdAllAssigned ==
  /\ EntriesBridged
  /\ (pc = "done" /\ LoopEntered /\ Distinct(el)
        /\ \A j \in DOMAIN el : el[j].local_path # None) => PositionsBridged

\* A run that renamed two files, the first after the second aired episode.
C11_Crossed ==
  /\ pc = "done" /\ exc = "none" /\ ~args.s
  /\ Len(renames) = 2 /\ PositionsBridged
  /\ renames[1] = Bridged(2)


(***************************************************************************)
(* Further claims about __main__.py                                        *)
(***************************************************************************)

\* The season number of directory j of the list can be told neither from
\* its name nor from -n.
Underivable(j) == ~SeasonMatch(dl[j]) /\ args.n = 0

\* The first such directory of the list.
FirstUnderivable ==
  CHOOSE j \in DOMAIN dl : Underivable(j) /\ \A h \in 1..(j - 1) : ~Underivable(h)

\* The files of the directory d are the files it had at the start.
Untouched(d) ==
  /\ FilesIn(fs, d) = FilesIn(fs0, d)
  /\ \A p \in FilesIn(fs, d) : fs.files[p] = p

\* The directories after the renames of q were done one after the other.
RECURSIVE Applied(_, _)
Applied(f, q) ==
  IF q = <<>> THEN f
  ELSE Applied(RenameFile(f, Head(q)[1], Head(q)[2]), Tail(q))

\* C12: in file mode, when the k-th directory of the list is the first whose
\* season number can be told neither from a Season N name nor from -n, no
\* file of the k-th or of a later directory is ever renamed or planned, and
\* the run ends at the k-th directory or before it with one error line and
\* without an exception, the renames done in the directories before the
\* k-th still in effect.
C12_StopsAtUnderivable ==
  (~args.d /\ \E j \in DOMAIN dl : Underivable(j)) =>
     LET kk == FirstUnderivable IN
       /\ di < kk
       /\ di = kk - 1 => pc \in {"dir", "done"}
       /\ \A j \in kk..Len(dl) : Untouched(dl[j])
       /\ \A r \in DOMAIN renames : \E j \in 1..(kk - 1) : Dir(renames[r][1]) = dl[j]
       /\ pc = "done" =>
            /\ errors = <<"no season number">> /\ exc = "none"
            /\ fs = IF args.s THEN fs0 ELSE Applied(fs0, renames)

\* A run that renamed a file of the first directory and stopped at the
\* second.
C12_StoppedAtSecond ==
  /\ pc = "done" /\ ~args.d /\ ~args.s
  /\ Len(dl) = 2 /\ Underivable(2) /\ ~Underivable(1)
  /\ errors = <<"no season number">>
  /\ renames # <<>> /\ fs # fs0
  /\ FilesIn(fs0, dl[2]) # {}

=============================================================================
